---- MODULE Spec2Model ----
(***************************************************************************)
(* Model of intraday_momentum_executor.py: the scheduler loop             *)
(* (run_intraday_scanner), one scan cycle (scan_universe_once), the       *)
(* per-symbol evaluation (evaluate_and_trade_symbol) with its feature     *)
(* extraction (fetch_intraminute_features) and the order path             *)
(* (submit_entry_order, get_spread_ratio, fetch_symbols_traded_today).    *)
(*                                                                         *)
(* Prices are integers in cents.  A ratio of two prices is kept as the    *)
(* pair <<numerator, denominator>> and compared by cross-multiplication;  *)
(* where the program's double arithmetic differs from the exact value on  *)
(* the price grid of the model, the difference is tabulated               *)
(* (FloorShortfall, StopRoundsDown).                                       *)
(***************************************************************************)
EXTENDS Integers, Sequences, FiniteSets

VARIABLES
    universe,    \* UNIVERSE_CONTRACTS: the symbols scanned in every cycle
    feed,        \* the bar windows reqHistoricalDataAsync may answer with
    pc,          \* position of run_intraday_scanner
    second,      \* datetime.now().second at the scheduler's last reading
    scans,       \* number of scan_universe_once calls that have not returned
    sem,         \* value of the asyncio.Semaphore of the current cycle
    task,        \* per symbol: the evaluate_and_trade_symbol task of the cycle
    executions,  \* symbols with an execution today (ib.reqExecutions)
    orders,      \* per symbol: number of ib.placeOrder calls (saturating)
    lastOrder,   \* per symbol: the last order handed to ib.placeOrder
    sinceStart,  \* seconds since the last scan cycle started (-1: none yet)
    sinceJoin,   \* seconds since the last scan cycle returned (-1: none yet)
    attempts,    \* per symbol: ib.placeOrder calls made in the current cycle
    session      \* the IB session: connected, the notifications of its loss, and
                 \* what _on_ib_disconnected did: disconnect calls, connect calls,
                 \* exceptions raised

vars == <<universe, feed, pc, second, scans, sem, task, executions, orders, lastOrder,
          sinceStart, sinceJoin, attempts, session>>

(***************************************************************************)
(* Bounds of the model                                                     *)
(***************************************************************************)
Symbols == {"AAA", "BBB"}

\* asyncio.Semaphore(50), scaled down so that the universe exceeds it
LimiterBound == 1

\* orders[s] counts up to this value and then stays there
MaxOrders == 2

\* a scan cycle takes between 0 and this many seconds of wall-clock time
MaxScanSeconds == 2

\* sinceStart and sinceJoin count up to this value and then stay there
MaxElapsed == 32

(***************************************************************************)
(* Program constants                                                       *)
(***************************************************************************)
ScanThreshold == 45
ScanInterval == 30
HeartbeatInterval == 1
PriceCeiling == 500
StrongRisk == 1000
MildRisk == 500

(***************************************************************************)
(* Helpers                                                                 *)
(***************************************************************************)
Max2(a, b) == IF a >= b THEN a ELSE b

SeqMax(xs) == CHOOSE m \in {xs[i] : i \in 1..Len(xs)} :
                 \A i \in 1..Len(xs) : xs[i] <= m

SeqMin(xs) == CHOOSE m \in {xs[i] : i \in 1..Len(xs)} :
                 \A i \in 1..Len(xs) : m <= xs[i]

\* a / b > 1.05, a / b < 1.03 for the float quotient of two prices
\* (exact on the price grid: the quotient is correctly rounded)
RatioGt105(r) == 100 * r[1] > 105 * r[2]
RatioLt103(r) == 100 * r[1] < 103 * r[2]

Bar(o, h, l, c, v) == [open |-> o, high |-> h, low |-> l, close |-> c, volume |-> v]

(***************************************************************************)
(* Price grid of the model, in cents                                       *)
(***************************************************************************)
Prices == {0, 90, 100, 105, 106, 110, 111, 115, 117, 125, 129, 130, 131,
           170, 200, 450, 460, 475, 477, 495, 510, 520}

\* pairs <<high, low>> of the grid for which the double computation
\* math.floor(high / low * 100) is one less than the exact floor(100*high/low)
\* (e.g. 4.77 / 4.5 * 100 = 105.99999999999999)
FloorShortfall == {<<117, 90>>, <<115, 100>>, <<460, 100>>, <<477, 100>>,
                   <<510, 100>>, <<477, 106>>, <<117, 130>>, <<460, 200>>,
                   <<510, 200>>, <<477, 450>>}

\* reference prices of the grid for which round(1.02 * p, 2) falls on the
\* lower cent although 1.02 * p is exactly half-way (1.02 * 1.25 = 1.275 -> 1.27)
StopRoundsDown == {125, 475}

(***************************************************************************)
(* fetch_intraminute_features: the reduction of the fetched bars           *)
(***************************************************************************)
\* a mutation of prev_range_ratio: the quotient is formed whatever the low is
prev_range_ratio_unguarded(prev) == <<prev.high, prev.low>>

\* (prev.high / prev.low) if prev.low else 1.0
prev_range_ratio(prev) == IF prev.low # 0 THEN <<prev.high, prev.low>> ELSE <<1, 1>>

Features(latest, prev, lastfive) ==
    [open |-> latest.open, high |-> latest.high, low |-> latest.low,
     close |-> latest.close, volume |-> latest.volume,
     prev |-> prev, lastfive |-> lastfive]

\* the value that stands for an exception raised inside the reduction
Raised == [raised |-> TRUE]

fetch_intraminute_features(bars) ==
    LET n == Len(bars) IN
    IF n = 0 THEN
        [open |-> 0, high |-> 0, low |-> 0, close |-> 0, volume |-> 0,
         prev |-> <<0, 1>>, lastfive |-> <<1, 1>>]
    ELSE IF n = 1 THEN Features(bars[n], <<1, 1>>, <<1, 1>>)
    ELSE IF n < 6 THEN Features(bars[n], prev_range_ratio(bars[n - 1]), <<1, 1>>)
    ELSE
        LET recent_window == SubSeq(bars, n - 5, n - 1)
            highs == [i \in 1..5 |-> recent_window[i].high]
            lows == SelectSeq([i \in 1..5 |-> recent_window[i].low], LAMBDA x : x # 0)
        IN  IF Len(lows) = 0 THEN Raised   \* min() of an empty sequence: ValueError
            ELSE LET max_price == SeqMax(highs)
                     min_price == SeqMin(lows)
                 IN  Features(bars[n], prev_range_ratio(bars[n - 1]),
                              IF min_price # 0 THEN <<max_price, min_price>> ELSE <<1, 1>>)

(***************************************************************************)
(* evaluate_and_trade_symbol: the decision on a feature vector             *)
(***************************************************************************)
\* math.floor(high / low * 100), i.e. bar_range_ratio in hundredths
bar_range_ratio(high, low) ==
    IF <<high, low>> \in FloorShortfall THEN (100 * high) \div low - 1
    ELSE (100 * high) \div low

\* a mutation of NotBullish: a flat bar is let through
NotBullishStrict(close, open) == close < open

\* if close_price <= open_price: return
NotBullish(close, open) == close <= open

NoTrade == [tier |-> "NoTrade", ref |-> 0, risk |-> 0]

Enter(tier, ref, risk) == [tier |-> tier, ref |-> ref, risk |-> risk]

Decision(fv) ==
    IF fv.high = 0 \/ fv.low = 0 THEN NoTrade
    ELSE LET r == bar_range_ratio(fv.high, fv.low) IN
         IF NotBullish(fv.close, fv.open) THEN NoTrade
         ELSE IF r > 130 THEN NoTrade
         ELSE IF RatioGt105(fv.prev) THEN NoTrade
         ELSE IF fv.close > PriceCeiling THEN NoTrade
         ELSE IF 110 < r /\ r < 130 THEN Enter("Strong", fv.high, StrongRisk)
         ELSE IF r > 105 /\ RatioLt103(fv.lastfive) THEN Enter("Mild", fv.high, MildRisk)
         ELSE NoTrade

(***************************************************************************)
(* get_spread_ratio and submit_entry_order: the pure parts                 *)
(***************************************************************************)
\* get_spread_ratio(contract) > 1.05 for the quote <<bid, ask>> (0: no value):
\* infinity when "not bid_price or not ask_price", ask / bid otherwise, the
\* quotient of a negative bid being negative
SpreadVeto(q) ==
    IF q[1] = 0 \/ q[2] = 0 THEN TRUE
    ELSE IF q[1] > 0 THEN RatioGt105(<<q[2], q[1]>>)
    ELSE 100 * q[2] < 105 * q[1]

\* round(1.02 * reference_price, 2)
stop_price(ref) ==
    IF ref \in StopRoundsDown THEN (102 * ref + 50) \div 100 - 1
    ELSE (102 * ref + 50) \div 100

\* a mutation of limit_price: the limit is cut to the cent below
limit_price_truncated(ref) == (108 * ref) \div 100

\* round(1.08 * reference_price, 2)
limit_price(ref) == (108 * ref + 50) \div 100

\* a mutation of quantity: the size is rounded up
quantity_rounded_up(risk, stop) == (risk + Max2(stop, 1) - 1) \div Max2(stop, 1)

\* int(dollar_risk / max(stop_price, 0.01))
quantity(risk, stop) == risk \div Max2(stop, 1)

Order(ref, risk) ==
    [qty |-> quantity(risk, stop_price(ref)), stop |-> stop_price(ref),
     limit |-> limit_price(ref)]

NoOrder == [qty |-> 0, stop |-> 0, limit |-> 0]

(***************************************************************************)
(* Inputs of the model                                                     *)
(***************************************************************************)
Flat == Bar(100, 100, 100, 100, 1)

\* bar windows without their latest bar
HistoryNone == << >>
HistoryQuiet == <<Flat>>
HistoryPrevEdge == <<Bar(100, 105, 100, 100, 1)>>
HistoryPrevWide == <<Bar(100, 106, 100, 100, 1)>>
HistoryTight == <<Flat, Flat, Flat, Flat, Flat>>
HistoryExtended == <<Bar(100, 105, 100, 100, 1), Flat, Flat, Flat, Flat>>
HistoryNoLows == <<Bar(0, 0, 0, 0, 0), Bar(0, 0, 0, 0, 0), Bar(0, 0, 0, 0, 0),
                   Bar(0, 0, 0, 0, 0), Bar(0, 0, 0, 0, 0)>>

\* the previous bar has no low
HistoryPrevNoLow == <<Bar(0, 105, 0, 100, 1)>>
\* a window of five bars: a wide bar, but too few bars before the latest
HistoryShortWide == <<Bar(100, 130, 90, 100, 1), Flat, Flat, Flat>>
\* a window of seven bars: the wide bar is older than the five before the latest
HistoryOlderWide == <<Bar(100, 130, 90, 100, 1), Flat, Flat, Flat, Flat, Flat>>
\* one of the five bars before the latest has no prices
HistoryGap == <<Bar(0, 0, 0, 0, 0), Flat, Flat, Flat, Flat>>

Histories == {HistoryNone, HistoryQuiet, HistoryPrevEdge, HistoryPrevWide,
              HistoryTight, HistoryExtended, HistoryNoLows, HistoryPrevNoLow,
              HistoryShortWide, HistoryOlderWide, HistoryGap}

\* latest bars on the price grid with low <= close <= high, opened at the
\* low, at the close or at the high: bullish, flat and bearish bars
LatestBars ==
    {Bar(q[1], q[2], q[3], q[4], 1) : q \in
        {q \in Prices \X Prices \X Prices \X Prices :
            /\ q[3] <= q[4] /\ q[4] <= q[2]
            /\ q[1] \in {q[3], q[4], q[2]}}}

\* the same bars without a traded volume
ThinBars == {[b EXCEPT !.volume = 0] : b \in LatestBars}

\* the windows the decision is examined on
TestWindows ==
    {<< >>} \cup {Append(h, b) : h \in Histories, b \in LatestBars}
            \cup {<<b>> : b \in ThinBars}

\* the windows the market data gateway answers with in the scanner runs
MarketFeed == {<< >>,
               <<Bar(100, 125, 100, 120, 1)>>,
               Append(HistoryTight, Bar(100, 110, 100, 105, 1)),
               Append(HistoryNoLows, Bar(100, 125, 100, 120, 1))}

\* quotes <<bid, ask>> in cents: 0 for a side without a value, and -1.00, the
\* price the IB feed reports for a side on which nobody quotes
Quotes == {<<0, 105>>, <<100, 105>>, <<100, 110>>, <<-100, 105>>}

(***************************************************************************)
(* State                                                                   *)
(***************************************************************************)
NoTask == [st |-> "none", tier |-> "NoTrade", ref |-> 0, risk |-> 0,
           quote |-> <<0, 0>>, out |-> "pending"]

NewTask == [NoTask EXCEPT !.st = "acquire"]

Done(out) == [NoTask EXCEPT !.st = "done", !.out = out]

Holding(t) == t.st \in {"bars", "spread", "ledger"}

Holders == {s \in Symbols : Holding(task[s])}

\* a mutation of can_acquire: the limiter admits everybody
can_acquire_unbounded(value) == TRUE

\* asyncio.Semaphore: a permit is granted while the value is positive
can_acquire(value) == value > 0

\* a mutation of OnException: the exception leaves the evaluation
OnExceptionUncaught == "raised"

\* except Exception as exc: print(...) -- the evaluation ends normally
OnException == "error"

\* a mutation of gather_done: the cycle returns with the first finished task
gather_first(t, u) == \E s \in u : t[s].st = "done"

\* asyncio.gather(*tasks) returns when every task has finished
gather_done(t, u) == \A s \in u : t[s].st = "done"

\* a mutation of AfterLaunch: the scan is started and not awaited
AfterLaunchDetached == "sleep30"

\* await scan_universe_once(): the loop stays in the scan until it returns
AfterLaunch == "scanning"

\* a mutation of past_threshold: the scan also starts at the threshold second
past_threshold_inclusive(sec) == sec >= ScanThreshold

\* if now.second > 45
past_threshold(sec) == sec > ScanThreshold

\* a stopwatch reading t, d seconds later
Later(t, d) == IF t < 0 THEN t ELSE IF t + d > MaxElapsed THEN MaxElapsed ELSE t + d

\* the seconds a scan of universe u may take: gathering no task takes none
ScanSeconds(u) == IF u = {} THEN {0} ELSE 0..MaxScanSeconds

\* a mutation of place_failed: the submission is tried again
place_retried(t) == t

\* ib.placeOrder raised: the exception ends the evaluation, nothing is resent
place_failed(t) == Done(OnException)

\* the ib.connect calls of one run of _on_ib_disconnected: the statement
\* ib.connect("127.x.x.x", xxxx, clientId=xxx) raises NameError while its
\* arguments are evaluated (xxxx is not defined), before ib.connect is called
reconnect_attempts == 0

\* a mutation of release: the permit of a failed evaluation is kept
release_unless_error(out, value) == IF out = "error" THEN value ELSE value + 1

\* leaving "async with sem": the permit is given back, whatever the outcome
release(out, value) == value + 1

TypeOK ==
    /\ universe \subseteq Symbols
    /\ pc \in {"check", "scanning", "sleep30", "crashed"}
    /\ second \in 0..59
    /\ scans \in 0..1
    /\ sem \in 0..LimiterBound
    /\ executions \subseteq Symbols
    /\ orders \in [Symbols -> 0..MaxOrders]
    /\ sinceStart \in -1..MaxElapsed
    /\ sinceJoin \in -1..MaxElapsed
    /\ attempts \in [Symbols -> 0..1]
    /\ session.lost \in 0..1
    /\ session.connected \in BOOLEAN

InitCommon ==
    /\ pc = "check"
    /\ scans = 0
    /\ sem = LimiterBound
    /\ task = [s \in Symbols |-> NoTask]
    /\ executions = {}
    /\ orders = [s \in Symbols |-> 0]
    /\ lastOrder = [s \in Symbols |-> NoOrder]
    /\ sinceStart = -1
    /\ sinceJoin = -1
    /\ attempts = [s \in Symbols |-> 0]
    /\ session = [connected |-> TRUE, lost |-> 0, disconnects |-> 0, connects |-> 0,
                  raised |-> 0]

\* the scanner started at any second of the minute
Init ==
    /\ universe = Symbols
    /\ feed = MarketFeed
    /\ second \in 0..59
    /\ InitCommon

(***************************************************************************)
(* run_intraday_scanner                                                    *)
(***************************************************************************)
\* now.second <= 45: await asyncio.sleep(1), then read the clock again
Heartbeat ==
    /\ pc = "check"
    /\ ~past_threshold(second)
    /\ second' = (second + HeartbeatInterval) % 60
    /\ sinceStart' = Later(sinceStart, HeartbeatInterval)
    /\ sinceJoin' = Later(sinceJoin, HeartbeatInterval)
    /\ UNCHANGED <<universe, feed, pc, scans, sem, task, executions, orders, lastOrder, attempts, session>>

\* now.second > 45: scan_universe_once() creates the semaphore and one task
\* per contract of the universe
StartCycle ==
    /\ pc = "check"
    /\ past_threshold(second)
    /\ pc' = AfterLaunch
    /\ scans' = scans + 1
    /\ sem' = LimiterBound
    /\ task' = [s \in Symbols |-> IF s \in universe THEN NewTask ELSE NoTask]
    /\ sinceStart' = 0
    /\ attempts' = [s \in Symbols |-> 0]
    /\ UNCHANGED <<universe, feed, second, executions, orders, lastOrder, sinceJoin, session>>

\* asyncio.gather returns (or raises what a task raised) and
\* scan_universe_once returns to the loop, some seconds after it was called
Join ==
    /\ pc = "scanning"
    /\ IF \E s \in universe : task[s].out = "raised"
       THEN /\ pc' = "crashed"
            /\ UNCHANGED <<second, scans, sinceStart, sinceJoin>>
       ELSE /\ gather_done(task, universe)
            /\ pc' = "sleep30"
            /\ scans' = scans - 1
            /\ \E d \in ScanSeconds(universe) :
                    /\ second' = (second + d) % 60
                    /\ sinceStart' = Later(sinceStart, d)
            /\ sinceJoin' = 0
    /\ UNCHANGED <<universe, feed, sem, task, executions, orders, lastOrder, attempts, session>>

\* await asyncio.sleep(30) after the scan, then read the clock again
Wake ==
    /\ pc = "sleep30"
    /\ pc' = "check"
    /\ second' = (second + ScanInterval) % 60
    /\ sinceStart' = Later(sinceStart, ScanInterval)
    /\ sinceJoin' = Later(sinceJoin, ScanInterval)
    /\ UNCHANGED <<universe, feed, scans, sem, task, executions, orders, lastOrder, attempts, session>>

(***************************************************************************)
(* evaluate_and_trade_symbol                                               *)
(***************************************************************************)
\* the evaluation ends with outcome out and leaves "async with sem"
Finish(s, out) ==
    /\ task' = [task EXCEPT ![s] = Done(out)]
    /\ sem' = release(out, sem)

\* async with sem: the task is admitted
Acquire(s) ==
    /\ task[s].st = "acquire"
    /\ can_acquire(sem)
    /\ sem' = sem - 1
    /\ task' = [task EXCEPT ![s].st = "bars"]
    /\ UNCHANGED <<universe, feed, pc, second, scans, executions, orders, lastOrder, sinceStart, sinceJoin, attempts, session>>

\* reqHistoricalDataAsync answers with a window; the features are computed,
\* the filters applied and, on a breakout, submit_entry_order is entered:
\* it requests the quote and waits in ib.sleep(1)
BarsReply(s) ==
    /\ task[s].st = "bars"
    /\ session.connected
    /\ \E w \in feed :
         LET fv == fetch_intraminute_features(w) IN
         IF fv = Raised THEN Finish(s, OnException)
         ELSE LET d == Decision(fv) IN
              IF d.tier = "NoTrade" THEN Finish(s, "notrade")
              ELSE /\ task' = [task EXCEPT ![s] =
                          [st |-> "spread", tier |-> d.tier, ref |-> d.ref,
                           risk |-> d.risk, quote |-> <<0, 0>>, out |-> "pending"]]
                   /\ UNCHANGED sem
    /\ UNCHANGED <<universe, feed, pc, second, scans, executions, orders, lastOrder, sinceStart, sinceJoin, attempts, session>>

\* reqHistoricalDataAsync raises
BarsFail(s) ==
    /\ task[s].st = "bars"
    /\ Finish(s, OnException)
    /\ UNCHANGED <<universe, feed, pc, second, scans, executions, orders, lastOrder, sinceStart, sinceJoin, attempts, session>>

\* get_spread_ratio reads the quote after ib.sleep(1); a wide or missing
\* quote returns from submit_entry_order, otherwise reqExecutions is sent
SpreadRead(s) ==
    /\ task[s].st = "spread"
    /\ \E q \in Quotes :
         IF SpreadVeto(q) THEN Finish(s, "veto_spread")
         ELSE /\ task' = [task EXCEPT ![s].st = "ledger", ![s].quote = q]
              /\ UNCHANGED sem
    /\ UNCHANGED <<universe, feed, pc, second, scans, executions, orders, lastOrder, sinceStart, sinceJoin, attempts, session>>

\* reqMktData or ib.sleep raises
SpreadFail(s) ==
    /\ task[s].st = "spread"
    /\ Finish(s, OnException)
    /\ UNCHANGED <<universe, feed, pc, second, scans, executions, orders, lastOrder, sinceStart, sinceJoin, attempts, session>>

\* reqExecutions answers: fetch_symbols_traded_today, the sizing and
\* ib.placeOrder
LedgerReply(s) ==
    /\ task[s].st = "ledger"
    /\ session.connected
    /\ LET o == Order(task[s].ref, task[s].risk) IN
       IF s \in executions THEN
            /\ Finish(s, "veto_ledger")
            /\ UNCHANGED <<orders, lastOrder, attempts>>
       ELSE IF o.qty <= 0 THEN
            /\ Finish(s, "noqty")
            /\ UNCHANGED <<orders, lastOrder, attempts>>
       ELSE /\ Finish(s, "ordered")
            /\ attempts' = [attempts EXCEPT ![s] = @ + 1]
            /\ orders' = [orders EXCEPT ![s] =
                              IF @ < MaxOrders THEN @ + 1 ELSE @]
            /\ lastOrder' = [lastOrder EXCEPT ![s] = o]
    /\ UNCHANGED <<universe, feed, pc, second, scans, executions, sinceStart, sinceJoin, session>>

\* reqExecutions raises
LedgerFail(s) ==
    /\ task[s].st = "ledger"
    /\ Finish(s, OnException)
    /\ UNCHANGED <<universe, feed, pc, second, scans, executions, orders, lastOrder, sinceStart, sinceJoin, attempts, session>>

\* ib.placeOrder raises
PlaceFail(s) ==
    /\ task[s].st = "ledger"
    /\ s \notin executions
    /\ Order(task[s].ref, task[s].risk).qty > 0
    /\ attempts' = [attempts EXCEPT ![s] = @ + 1]
    /\ task' = [task EXCEPT ![s] = place_failed(task[s])]
    /\ sem' = IF Holding(place_failed(task[s])) THEN sem ELSE release(OnException, sem)
    /\ UNCHANGED <<universe, feed, pc, second, scans, executions, orders, lastOrder, sinceStart, sinceJoin, session>>

(***************************************************************************)
(* The broker                                                              *)
(***************************************************************************)
\* an order placed earlier is executed: the symbol appears in reqExecutions
Fill(s) ==
    /\ orders[s] > 0
    /\ s \notin executions
    /\ executions' = executions \cup {s}
    /\ UNCHANGED <<universe, feed, pc, second, scans, sem, task, orders, lastOrder, sinceStart, sinceJoin, attempts, session>>

\* the session is lost and disconnectedEvent runs _on_ib_disconnected:
\* ib.disconnect() is called, then the ib.connect statement raises NameError
\* before the call is made; the event reports the listener's exception and the
\* session stays disconnected
SessionLost ==
    /\ session.connected
    /\ session' = [connected |-> FALSE,
                   lost |-> session.lost + 1,
                   disconnects |-> session.disconnects + 1,
                   connects |-> session.connects + reconnect_attempts,
                   raised |-> session.raised + 1]
    /\ UNCHANGED <<universe, feed, pc, second, scans, sem, task, executions, orders,
                   lastOrder, sinceStart, sinceJoin, attempts>>

(***************************************************************************)
(* Specifications                                                          *)
(***************************************************************************)
Evaluate(s) ==
    \/ Acquire(s)
    \/ BarsReply(s)
    \/ BarsFail(s)
    \/ SpreadRead(s)
    \/ SpreadFail(s)
    \/ LedgerReply(s)
    \/ LedgerFail(s)
    \/ PlaceFail(s)

Next ==
    \/ Heartbeat
    \/ StartCycle
    \/ Join
    \/ Wake
    \/ \E s \in Symbols : Evaluate(s)
    \/ \E s \in Symbols : Fill(s)
    \/ SessionLost

Spec == Init /\ [][Next]_vars

\* one scan of a universe of one symbol, for every window under examination
InitEval ==
    /\ universe = {"AAA"}
    /\ feed \in {{w} : w \in TestWindows}
    /\ second = ScanThreshold + 1
    /\ InitCommon

NextEval ==
    \/ StartCycle
    \/ Join
    \/ \E s \in Symbols : Evaluate(s)

EvalSpec == InitEval /\ [][NextEval]_vars

\* the steps the event loop itself takes: the scheduler coroutine, the wake-up
\* of a task waiting for the semaphore, and the end of ib.sleep(1)
Scheduler == Heartbeat \/ StartCycle \/ Join \/ Wake

Fairness ==
    /\ WF_vars(Scheduler)
    /\ \A s \in Symbols : WF_vars(Acquire(s))
    /\ \A s \in Symbols : WF_vars(SpreadRead(s) \/ SpreadFail(s))

\* the requests awaited without a timeout: reqHistoricalDataAsync, reqExecutions
Answered ==
    /\ \A s \in Symbols : WF_vars(BarsReply(s) \/ BarsFail(s))
    /\ \A s \in Symbols : WF_vars(LedgerReply(s) \/ LedgerFail(s) \/ PlaceFail(s))

\* the event loop runs what is ready; the broker may leave a request unanswered
LiveSpec == Spec /\ Fairness

\* as LiveSpec, and every request is answered, with a result or with an error
ResponsiveSpec == Spec /\ Fairness /\ Answered

(***************************************************************************)
(* Properties                                                              *)
(***************************************************************************)

\* C1: at no time do more evaluations hold a permit of the limiter than its
\* bound, also when the universe is larger than the bound.
BoundedPermits == Cardinality(Holders) <= LimiterBound

\* the limiter is full and another evaluation is waiting for a permit
BoundedPermitsWitness ==
    /\ Cardinality(Holders) = LimiterBound
    /\ \E s \in Symbols : task[s].st = "acquire"

\* C2: for every symbol at most one order reaches ib.placeOrder during the
\* trading day, over any number of scan cycles.
AtMostOneOrderPerSymbol == \A s \in Symbols : orders[s] <= 1

\* C3: a failing step of one evaluation ends that evaluation only: the step
\* changes no sibling task and not the scheduler, the cycle never raises, and
\* a cycle with a failed evaluation returns with every evaluation finished.
FailureIsolated ==
    /\ [](pc # "crashed")
    /\ [][\A s \in Symbols :
            (task[s].out # "error" /\ task'[s].out = "error") =>
                /\ pc' = pc
                /\ orders' = orders
                /\ \A t \in Symbols \ {s} : task'[t] = task[t]]_vars
    /\ []((pc = "sleep30" /\ \E s \in universe : task[s].out = "error") =>
            \A t \in universe : task[t].st = "done" /\ task[t].out # "pending")

\* a cycle has returned in which one evaluation failed and its sibling
\* placed its order
FailureIsolatedWitness ==
    /\ pc = "sleep30"
    /\ \E s, t \in universe : task[s].out = "error" /\ task[t].out = "ordered"

\* C4: at most one scan cycle is in flight, and a cycle starts only when no
\* evaluation of an earlier cycle is unfinished.
NoOverlappingCycles ==
    /\ [](scans <= 1)
    /\ [][scans' > scans =>
            \A s \in Symbols : task[s].st \in {"none", "done"}]_vars

\* a later cycle is in flight: a symbol ordered in an earlier cycle is being
\* evaluated again
NoOverlappingCyclesWitness ==
    /\ pc = "scanning"
    /\ \E s \in universe : orders[s] > 0 /\ task[s].st = "bars"

\* C5: when scan_universe_once has returned, every evaluation it spawned has
\* finished; none is waiting or running.
JoinAfterAllFinished ==
    pc \in {"sleep30", "check"} =>
        \A s \in universe : task[s].st \in {"none", "done"}

\* the cycle has returned after one evaluation placed an order and another
\* was vetoed on the spread
JoinAfterAllFinishedWitness ==
    /\ pc = "sleep30"
    /\ \E s, t \in universe : task[s].out = "ordered" /\ task[t].out = "veto_spread"

\* C6: the scheduler loop is never ended by an error of an evaluation or of a
\* cycle: after a cycle with a failed evaluation the loop is back at its
\* check, and another scan cycle is always eventually started.
SchedulerKeepsScanning ==
    /\ [](pc # "crashed")
    /\ ((pc = "scanning" /\ \E s \in universe : task[s].out = "error") ~> (pc = "check"))
    /\ []<>(pc = "scanning")

\* the loop is back at its check after a cycle in which every evaluation failed
SchedulerKeepsScanningWitness ==
    /\ pc = "check"
    /\ \A s \in universe : task[s].out = "error"

\* C7: every evaluation that holds a permit eventually releases it and every
\* cycle eventually reaches its join-point, also when a request is never
\* answered.
PermitsEventuallyReleased ==
    /\ \A s \in Symbols : (Holding(task[s]) ~> ~Holding(task[s]))
    /\ ((pc = "scanning") ~> (pc = "sleep30"))

\* the latest bar of a window
Latest(w) == w[Len(w)]

\* two feature vectors carry the same values
SameVector(a, b) ==
    /\ <<a.open, a.high, a.low, a.close, a.volume>> =
       <<b.open, b.high, b.low, b.close, b.volume>>
    /\ a.prev[1] * b.prev[2] = b.prev[1] * a.prev[2]
    /\ a.lastfive[1] * b.lastfive[2] = b.lastfive[1] * a.lastfive[2]

\* C8: for a feature vector with close <= open, whatever its other fields,
\* submit_entry_order is never entered and no order is placed; and the decision
\* is a function of the feature vector alone: the decision the evaluation took
\* is the decision of every window that gives the same vector through another
\* history.
NotBullishNeverSubmitted ==
    \A w \in feed :
        LET fv == fetch_intraminute_features(w) IN
        fv # Raised =>
            \A s \in Symbols :
                /\ fv.close <= fv.open =>
                       /\ task[s].st \notin {"spread", "ledger"}
                       /\ task[s].out \in {"pending", "notrade", "error"}
                       /\ orders[s] = 0
                /\ (w # << >> /\ (task[s].st \in {"spread", "ledger"} \/ task[s].out = "notrade")) =>
                       \A h \in Histories :
                           LET other == fetch_intraminute_features(Append(h, Latest(w))) IN
                           (other # Raised /\ SameVector(fv, other)) =>
                               IF task[s].out = "notrade" THEN Decision(other) = NoTrade
                               ELSE Decision(other) =
                                        Enter(task[s].tier, task[s].ref, task[s].risk)

\* a bearish bar (close < open) with high/low = 1.25, inside the Strong range,
\* was evaluated to no trade
NotBullishNeverSubmittedWitness ==
    /\ feed = {<<Bar(125, 125, 100, 110, 1)>>}
    /\ task["AAA"].out = "notrade"

\* the decision of the classifier as the specification states it, with
\* barRangeRatio = floor(high / low * 100) / 100 in exact arithmetic
StatedDecision(fv) ==
    IF fv.low = 0 THEN "NoTrade"
    ELSE LET r == (100 * fv.high) \div fv.low IN
         IF \/ fv.close <= fv.open
            \/ r > 130
            \/ RatioGt105(fv.prev)
            \/ fv.close > PriceCeiling
         THEN "NoTrade"
         ELSE IF 110 < r /\ r < 130 THEN "Strong"
         ELSE IF r > 105 /\ RatioLt103(fv.lastfive) THEN "Mild"
         ELSE "NoTrade"

\* C9: the decision on every feature vector is the stated one: NoTrade on a
\* reject, otherwise Strong exactly when 1.10 < barRangeRatio < 1.30, otherwise
\* Mild exactly when barRangeRatio > 1.05 and lastFiveRangeRatio < 1.03, with
\* the bar's high as reference price.
DecisionAsStated ==
    \A w \in feed :
        LET fv == fetch_intraminute_features(w) IN
        fv # Raised =>
            \A s \in Symbols :
                /\ task[s].st = "spread" =>
                       /\ task[s].tier = StatedDecision(fv)
                       /\ task[s].ref = fv.high
                /\ task[s].out = "notrade" => StatedDecision(fv) = "NoTrade"

\* high / low < 1.30 for the double quotient of two prices of the grid; it is
\* the exact comparison except for 1.17 / 0.9 = 1.2999999999999998
QuotientLt130(high, low) ==
    100 * high < 130 * low \/ <<high, low>> = <<117, 90>>

\* C10: an order is placed only for a latest bar with 1.05 < high/low < 1.30;
\* no order reaches the gateway for a bar with high/low <= 1.05 or >= 1.30.
OrderOnlyInsideRange ==
    \A w \in feed : \A s \in Symbols :
        (orders[s] > 0 /\ w # << >>) =>
            /\ 105 * Latest(w).low < 100 * Latest(w).high
            /\ QuotientLt130(Latest(w).high, Latest(w).low)

\* the scheduler alone: a universe without symbols, whose scan takes no time
InitTiming ==
    /\ universe = {}
    /\ feed = MarketFeed
    /\ second \in 0..59
    /\ InitCommon

TimingSpec == InitTiming /\ [][Scheduler]_vars

\* C15: a scan cycle starts about every 30 seconds: when the scan takes
\* negligible time, a cycle starts 30 to 31 seconds after the previous
\* cycle started.
ScanEveryThirtySeconds ==
    [][(scans' > scans /\ sinceStart >= 0) => sinceStart \in 30..31]_vars

\* C16: every evaluation that acquired a permit gives it back exactly once
\* when it ends, whatever its outcome, so the permits out and the value of
\* the semaphore always add up to the bound, and when the cycle has returned
\* no permit is held and the semaphore is back at its bound.
PermitsReturned ==
    /\ [](sem + Cardinality(Holders) = LimiterBound)
    /\ [][\A s \in Symbols :
            (Holding(task[s]) /\ ~Holding(task'[s])) => sem' = sem + 1]_vars
    /\ [](pc = "sleep30" => (sem = LimiterBound /\ Holders = {}))

\* the cycle has returned after one evaluation failed and another was
\* vetoed by the ledger, and the semaphore is at its bound
PermitsReturnedWitness ==
    /\ pc = "sleep30"
    /\ sem = LimiterBound
    /\ \E s, t \in universe : task[s].out = "error" /\ task[t].out = "veto_ledger"

\* C17: a cycle starts only at a check with second > 45; at a check with
\* second <= 45 no cycle starts and the next check is one second later; the
\* check after a cycle is 30 seconds after its return, so no cycle starts
\* less than 30 seconds after the previous one returned.
StartsOnlyPastThreshold ==
    /\ [][scans' > scans =>
            /\ pc = "check" /\ second > 45
            /\ sinceJoin = -1 \/ sinceJoin >= 30]_vars
    /\ [][(pc = "check" /\ second <= 45) =>
            /\ pc' = "check" /\ scans' = scans
            /\ second' \in {second, second + 1}]_vars
    /\ [][(pc = "sleep30" /\ pc' # "sleep30") =>
            /\ pc' = "check" /\ scans' = scans
            /\ second' = (second + 30) % 60]_vars

\* a cycle has just started, at second 46, after polling since the 30-second
\* sleep that followed the previous cycle
StartsOnlyPastThresholdWitness ==
    /\ pc = "scanning"
    /\ second = 46
    /\ sinceStart = 0
    /\ sinceJoin > 30


\* C12: no order reaches the gateway when, at the spread check made just
\* before the submission, the bid or the ask is missing (no price on that
\* side) or ask / bid > 1.05.
SpreadGateBlocksOrders ==
    [][\A s \in Symbols :
          attempts'[s] > attempts[s] =>
              /\ task[s].quote[1] > 0
              /\ task[s].quote[2] > 0
              /\ ~RatioGt105(<<task[s].quote[2], task[s].quote[1]>>)]_vars

\* C13: a failed submission is reported for its symbol and not sent again in
\* the same cycle: a cycle makes at most one submission attempt per symbol, a
\* finished evaluation stays finished until the next cycle starts, and the next
\* cycle evaluates every symbol of the universe anew.
NoResubmission ==
    /\ [](\A s \in Symbols : attempts[s] <= 1)
    /\ [][\A s \in Symbols :
            (attempts'[s] > attempts[s] /\ task'[s].out # "ordered")
                => (task'[s] = Done("error") /\ orders' = orders)]_vars
    /\ [][\A s \in Symbols :
            task[s].st = "done" => (task'[s] = task[s] \/ scans' > scans)]_vars
    /\ [][scans' > scans =>
            \A s \in universe : task'[s] = NewTask /\ attempts'[s] = 0]_vars

\* one submission failed and was reported, the other symbol's order was placed,
\* and the cycle has returned
NoResubmissionWitness ==
    /\ pc = "sleep30"
    /\ \E s, t \in universe :
         /\ task[s].out = "error" /\ attempts[s] = 1 /\ orders[s] = 0
         /\ task[t].out = "ordered" /\ attempts[t] = 1

\* C14: reconnecting happens only in the handler of the session-lost
\* notification, which disconnects once and tries to connect once; the handler
\* touches nothing of the scan cycle in flight, and an evaluation whose request
\* cannot be answered on the lost session ends as a reported failure that is
\* not taken up again in that cycle.
ReconnectOncePerNotification ==
    /\ [](session.disconnects = session.lost /\ session.connects = session.lost)
    /\ [][session' # session =>
            /\ session.connected
            /\ session'.lost = session.lost + 1
            /\ UNCHANGED <<pc, scans, sem, task, attempts, orders, lastOrder>>]_vars
    /\ [][\A s \in Symbols :
            (~session.connected /\ task[s].st \in {"bars", "ledger"} /\ task'[s] # task[s])
                => task'[s] = Done("error")]_vars
    /\ [][\A s \in Symbols :
            (~session.connected /\ task[s].out = "error")
                => (task'[s] = task[s] \/ scans' > scans)]_vars


\* cents is a cent value nearest to hundredths / 100 (a tie may go either way)
NearestCent(cents, hundredths) ==
    /\ 100 * cents - hundredths <= 50
    /\ hundredths - 100 * cents <= 50

\* C11: every order placed has stopPrice = round(1.02 * referencePrice, 2),
\* limitPrice = round(1.08 * referencePrice, 2) and quantity =
\* floor(dollarRisk / max(stopPrice, 0.01)) with dollarRisk 10 for Strong and 5
\* for Mild; the quantity of a placed order is a positive integer, and a
\* computed quantity <= 0 ends the submission quietly: no order, no error.
OrderAsStated ==
    /\ [](\A w \in feed : \A s \in Symbols :
            orders[s] > 0 =>
                LET d == Decision(fetch_intraminute_features(w))
                    o == lastOrder[s]
                    dollarRisk == IF d.tier = "Strong" THEN 1000 ELSE 500
                IN  /\ NearestCent(o.stop, 102 * d.ref)
                    /\ NearestCent(o.limit, 108 * d.ref)
                    /\ o.qty = dollarRisk \div Max2(o.stop, 1)
                    /\ o.qty \in Nat \ {0})
    /\ [][\A s \in Symbols :
            (/\ task[s].st = "ledger"
             /\ task[s].risk < stop_price(task[s].ref)
             /\ task'[s].st = "done"
             /\ task'[s].out # "error")
                => (task'[s].out = "noqty" /\ orders' = orders /\ attempts' = attempts)]_vars

\* the stated example: reference price 2.00 on a Strong decision gives stop 2.04,
\* limit 2.16 and quantity 4
OrderAsStatedWitness ==
    /\ orders["AAA"] = 1
    /\ lastOrder["AAA"] = [qty |-> 4, stop |-> 204, limit |-> 216]
    /\ \E w \in feed : Decision(fetch_intraminute_features(w)) = Enter("Strong", 200, 1000)

SetMax(S) == CHOOSE m \in S : \A x \in S : x <= m
SetMin(S) == CHOOSE m \in S : \A x \in S : m <= x

\* the feature vector the specification states for a bar window
StatedFeatures(w) ==
    LET n == Len(w) IN
    IF n = 0 THEN
        [open |-> 0, high |-> 0, low |-> 0, close |-> 0, volume |-> 0,
         prev |-> <<0, 1>>, lastfive |-> <<1, 1>>]
    ELSE
        LET prev == IF n >= 2 /\ w[n - 1].low > 0
                    THEN <<w[n - 1].high, w[n - 1].low>> ELSE <<1, 1>>
            five == (n - 5)..(n - 1)
            lows == {w[i].low : i \in {j \in five : n >= 6 /\ w[j].low > 0}}
            lastfive == IF n < 6 \/ lows = {} THEN <<1, 1>>
                        ELSE <<SetMax({w[i].high : i \in five}), SetMin(lows)>>
        IN  Features(w[n], prev, lastfive)

\* the evaluation after the classification of the feature vector fv
Classified(fv) ==
    LET d == Decision(fv) IN
    IF d.tier = "NoTrade" THEN Done("notrade")
    ELSE [st |-> "spread", tier |-> d.tier, ref |-> d.ref, risk |-> d.risk,
          quote |-> <<0, 0>>, out |-> "pending"]

\* C18: on a window of six or more bars the classification proceeds on the
\* last bar's OHLCV, prevBarRangeRatio = previous high/low (1.0 without a
\* previous low > 0) and lastFiveRangeRatio = max high / min positive low of
\* the five bars before the last, or 1.0 when none of the five has a low > 0.
ExtractorLongWindows ==
    [][\A s \in Symbols : \A w \in feed :
          (Len(w) >= 6 /\ BarsReply(s)) => task'[s] = Classified(StatedFeatures(w))]_vars

\* C19: on a window of fewer than six bars the classification proceeds on the
\* stated vector: all zero with ratios 0 and 1 for no bar (ending as NoTrade,
\* not as an error), the bar with both ratios 1.0 for one bar, the last bar
\* with the previous bar's high/low (1.0 without a previous low > 0) and
\* lastFiveRangeRatio 1.0 for two to five bars.
ExtractorShortWindows ==
    [][\A s \in Symbols : \A w \in feed :
          (Len(w) < 6 /\ BarsReply(s)) =>
              /\ task'[s] = Classified(StatedFeatures(w))
              /\ Len(w) = 0 => task'[s] = Done("notrade")]_vars

\* a window of two bars whose previous bar has no low led to a submission
ExtractorShortWindowsWitness ==
    /\ task["AAA"].st = "spread"
    /\ \E w \in feed : Len(w) = 2 /\ w[1].low = 0 /\ w[1].high > 0

\* C20: every order placed risks at most the dollar risk of its tier:
\* quantity * stopPrice <= dollarRisk, and a decision whose stop price is above
\* its tier's dollar risk places no order.
RiskBounded ==
    \A w \in feed : \A s \in Symbols :
        LET fv == fetch_intraminute_features(w)
            d == IF fv = Raised THEN NoTrade ELSE Decision(fv)
            dollarRisk == IF d.tier = "Strong" THEN 1000 ELSE 500
        IN  /\ orders[s] > 0 =>
                /\ lastOrder[s].qty >= 1
                /\ lastOrder[s].qty * lastOrder[s].stop <= dollarRisk
            /\ (d.tier # "NoTrade" /\ 102 * d.ref > 100 * dollarRisk + 50) => orders[s] = 0

\* a Mild decision on a bar with high 4.95 (stop 5.05) ended without an order
RiskBoundedWitness ==
    /\ feed = {<<Bar(460, 495, 460, 495, 1)>>}
    /\ task["AAA"].out = "noqty"
    /\ orders["AAA"] = 0

====
